---- MODULE Spec2Model ----
\* Model of source/dovi_profile_changer/plugin.py: the library file test, the
\* platform lookup, the dovi_tool provisioning and the worker runner.
EXTENDS Integers, Sequences, FiniteSets, TLC

\* ---------------------------------------------------------------- bounds
MaxCalls == 2       \* invocations the host makes in one run
MaxAssets == 2      \* assets listed by one release
MaxChunks == 2      \* chunks of one asset body
MaxStreams == 2     \* streams of one probed file
MaxSideData == 2    \* side-data records of one stream

\* ---------------------------------------------------------------- strings
\* A string is a sequence of fragments; an architecture name is spelled letter
\* by letter so that str.lower() is computed, not assumed.
UpperAlpha == <<"A", "B", "C", "D", "E", "F", "G", "H", "I", "J", "K", "L", "M",
                "N", "O", "P", "Q", "R", "S", "T", "U", "V", "W", "X", "Y", "Z">>
LowerAlpha == <<"a", "b", "c", "d", "e", "f", "g", "h", "i", "j", "k", "l", "m",
                "n", "o", "p", "q", "r", "s", "t", "u", "v", "w", "x", "y", "z">>

LowerCh(c) ==
    IF \E i \in DOMAIN UpperAlpha : UpperAlpha[i] = c
    THEN LowerAlpha[CHOOSE i \in DOMAIN UpperAlpha : UpperAlpha[i] = c]
    ELSE c

\* str.lower()
Lower(s) == [i \in DOMAIN s |-> LowerCh(s[i])]

M_amd64 == <<"a", "m", "d", "6", "4">>
M_AMD64 == <<"A", "M", "D", "6", "4">>
M_x86_64 == <<"x", "8", "6", "_", "6", "4">>
M_arm64 == <<"a", "r", "m", "6", "4">>

\* values platform.system() and platform.machine() can report
Systems == {"Windows", "Linux", "Darwin", "FreeBSD"}
Machines == {M_amd64, M_AMD64, M_x86_64, M_arm64}

\* ---------------------------------------------------------------- platform
machine_map == [k \in {M_amd64} |-> M_x86_64]

\* machine_map[machine.lower()] raises KeyError when the key is not in the dict
get_platform_raises(mach) == Lower(mach) \notin DOMAIN machine_map

get_platform(sys, mach) == <<sys, machine_map[Lower(mach)]>>

\* ---------------------------------------------------------------- cache paths
\* names inside the bin directory returned by _get_bin_path()
BinaryName(p) == IF p[1] = "Windows" THEN <<"dovi_tool", ".exe">> ELSE <<"dovi_tool">>

BinaryFile == [kind |-> "binary", valid |-> TRUE, members |-> {}, total |-> 0, written |-> 0]

\* ---------------------------------------------------------------- release feed
Tags == {"2.1.0", "2.1.1"}
Suffixes == {"pc-windows-msvc.zip", "unknown-linux-musl.tar.gz", "universal-macOS.zip"}

SupportedSystem(sys) == sys \in {"Windows", "Linux", "Darwin"}

asset_file_suffix(sys) ==
    CASE sys = "Windows" -> "pc-windows-msvc.zip"
      [] sys = "Linux" -> "unknown-linux-musl.tar.gz"
      [] sys = "Darwin" -> "universal-macOS.zip"

\* the name with the architecture as given
AssetFileNameAsGiven(tag, p) ==
    <<"dovi_tool", "-", tag, "-">> \o p[2] \o <<"-", asset_file_suffix(p[1])>>

\* f"dovi_tool-{tag}-{platform[1].lower()}-{asset_file_suffix}"
AssetFileName(tag, p) ==
    <<"dovi_tool", "-", tag, "-">> \o Lower(p[2]) \o <<"-", asset_file_suffix(p[1])>>

\* asset names the release tagged tg may list: the architecture as given and
\* lowercased, every suffix
FeedNames(tg, p) ==
    { <<"dovi_tool", "-", tg, "-">> \o a \o <<"-", s>> :
        a \in {p[2], Lower(p[2])}, s \in Suffixes }

FeedAssets(tg, p) ==
    UNION { { [i \in 1..n |-> [name |-> f[i], browser_download_url |-> <<"url", i>>]] :
                f \in [1..n -> FeedNames(tg, p)] } : n \in 0..MaxAssets }

NoAsset == [name |-> <<>>, browser_download_url |-> <<>>]

\* next((asset for asset in release_data["assets"] if asset["name"] == name), None)
MatchingIndexes(assets, name) == {i \in DOMAIN assets : assets[i].name = name}

FirstMatch(assets, name) ==
    LET hits == MatchingIndexes(assets, name)
    IN  assets[CHOOSE i \in hits : \A j \in hits : i <= j]

\* ---------------------------------------------------------------- archives
\* member lists an archive may have: the binary under one name or the other, so
\* that for every OS one layout holds the expected binary and one does not
Layouts == { {<<"dovi_tool">>}, {<<"dovi_tool", ".exe">>} }

\* bodies a download URL may serve: a well-formed archive of some layout, or
\* bytes that are no archive
Bodies ==
    { [valid |-> TRUE, members |-> m, total |-> MaxChunks] : m \in Layouts }
    \cup { [valid |-> FALSE, members |-> {}, total |-> MaxChunks] }

NoBody == [valid |-> FALSE, members |-> {}, total |-> 0]

ArchiveFile(b, k) ==
    [kind |-> "archive", valid |-> b.valid, members |-> b.members, total |-> b.total,
     written |-> k]

\* shutil.unpack_archive reads a complete, well-formed archive or raises ReadError
Readable(f) == f.kind = "archive" /\ f.valid /\ f.written = f.total

Extract(fs, f) == [n \in DOMAIN fs \cup f.members |-> IF n \in f.members THEN BinaryFile ELSE fs[n]]

\* ---------------------------------------------------------------- task record
Unset == -1
FINAL_STEP == 4

TaskRecords ==
    { [step |-> s, repeat |-> FALSE, exec_command |-> <<>>] : s \in {Unset} \cup 0..(FINAL_STEP - 1) }

NoRecord == [step |-> Unset, repeat |-> FALSE, exec_command |-> <<>>]

\* ---------------------------------------------------------------- state
VARIABLES
    workers,          \* worker slots of the host that run tasks
    system, machine,  \* what platform.system() and platform.machine() report
    latest,           \* tag of the latest release in the feed
    binDir,           \* the bin directory exists
    files,            \* files in the bin directory: name -> content
    pc,               \* position of each worker's call
    entry,            \* "worker": on_worker_process, "direct": _ensure_dovi_tool alone
    data,             \* the task record handed to on_worker_process
    plat,             \* the platform tuple of the call
    tag,              \* tag_name of the latest release
    asset_file_name,  \* asset name the call looks for
    asset,            \* asset the call selected
    body,             \* body the download URL serves to the call
    err,              \* exception raised by the call, "none" if none
    ret,              \* record returned by on_worker_process
    reqs,             \* requests the call has sent
    hit,              \* the call found the binary at line 99
    unpacked,         \* the call invoked _unpack_asset
    pos,              \* chunks the call has written through its file handle
    files0, binDir0,  \* bin directory when the call started
    data0,            \* the task record as the host handed it over
    prev,             \* platform of the call before this one if it provisioned the
                      \* tool from a cache without the binary, else NoPlatform
    calls,            \* invocations made so far
    test              \* the library file test: its input and its result

vars == <<workers, system, machine, latest, binDir, files, pc, entry, data, plat, tag,
          asset_file_name, asset, body, err, ret, reqs, hit, unpacked, pos, files0, binDir0, data0,
          prev, calls, test>>

envVars == <<workers, system, machine, latest>>

NoPlatform == <<"", <<>>>>
IdleTest == [phase |-> "idle", probed |-> FALSE, streams |-> <<>>,
             add_file_to_pending_tasks |-> FALSE, returned |-> FALSE]

FeedRequest == <<"GET", "releases/latest">>
DownloadRequest(url) == <<"GET", url>>

\* the exception caught and logged inside the call, which goes on as if the tool
\* were in place
RaiseCaught(t, e) == /\ pc' = [pc EXCEPT ![t] = "ensured"]
                     /\ err' = [err EXCEPT ![t] = e]

\* raise: the call ends where it stands and the exception goes to the caller
Raise(t, e) == /\ pc' = [pc EXCEPT ![t] = "raised"]
               /\ err' = [err EXCEPT ![t] = e]

\* ---------------------------------------------------------------- initial state
InitFiles ==
    \E pre \in {{}, {BinaryName(<<system, machine>>)}} :
        /\ files = [n \in pre |-> BinaryFile]
        /\ binDir \in {b \in BOOLEAN : pre # {} => b}

InitWorkers(W) ==
    /\ workers = W
    /\ pc = [t \in W |-> "idle"]
    /\ entry = [t \in W |-> "none"]
    /\ data = [t \in W |-> NoRecord]
    /\ plat = [t \in W |-> NoPlatform]
    /\ tag = [t \in W |-> ""]
    /\ asset_file_name = [t \in W |-> <<>>]
    /\ asset = [t \in W |-> NoAsset]
    /\ body = [t \in W |-> NoBody]
    /\ err = [t \in W |-> "none"]
    /\ ret = [t \in W |-> NoRecord]
    /\ reqs = [t \in W |-> <<>>]
    /\ hit = [t \in W |-> FALSE]
    /\ unpacked = [t \in W |-> FALSE]
    /\ pos = [t \in W |-> 0]
    /\ files0 = [t \in W |-> files]
    /\ binDir0 = [t \in W |-> binDir]
    /\ data0 = [t \in W |-> NoRecord]
    /\ prev = NoPlatform
    /\ calls = 0

Init ==
    /\ system \in Systems
    /\ machine \in Machines
    /\ latest \in Tags
    /\ InitFiles
    /\ InitWorkers({1})
    /\ test = IdleTest

\* ---------------------------------------------------------------- the host
StartCall(t, e, d, p) ==
    /\ pc[t] = "idle"
    /\ calls < MaxCalls
    /\ calls' = calls + 1
    /\ entry' = [entry EXCEPT ![t] = e]
    /\ data' = [data EXCEPT ![t] = d]
    /\ plat' = [plat EXCEPT ![t] = p]
    /\ files0' = [files0 EXCEPT ![t] = files]
    /\ binDir0' = [binDir0 EXCEPT ![t] = binDir]
    /\ data0' = [data0 EXCEPT ![t] = d]
    /\ UNCHANGED <<envVars, binDir, files, tag, asset_file_name, asset, body, err, ret,
                   reqs, hit, unpacked, pos, prev, test>>

\* the host calls on_worker_process(data) with one of the records D: lines 170-171
HostInvokeWith(t, D) ==
    /\ \E d \in D : StartCall(t, "worker", d, NoPlatform)
    /\ pc' = [pc EXCEPT ![t] = "get_platform"]

HostInvoke(t) == HostInvokeWith(t, TaskRecords)

\* _ensure_dovi_tool called on its own with the platform as reported
CallEnsure(t) ==
    /\ StartCall(t, "direct", NoRecord, <<system, machine>>)
    /\ pc' = [pc EXCEPT ![t] = "exists"]

\* the call is over; the worker slot is free again
Finished(t) ==
    \/ pc[t] \in {"returned", "raised"}
    \/ pc[t] = "ensured" /\ entry[t] = "direct"

Provisioned(t) == err[t] = "none" /\ pc[t] \in {"ensured", "returned"}

ClearCall(t) ==
    /\ pc' = [pc EXCEPT ![t] = "idle"]
    /\ entry' = [entry EXCEPT ![t] = "none"]
    /\ data' = [data EXCEPT ![t] = NoRecord]
    /\ plat' = [plat EXCEPT ![t] = NoPlatform]
    /\ tag' = [tag EXCEPT ![t] = ""]
    /\ asset_file_name' = [asset_file_name EXCEPT ![t] = <<>>]
    /\ asset' = [asset EXCEPT ![t] = NoAsset]
    /\ body' = [body EXCEPT ![t] = NoBody]
    /\ err' = [err EXCEPT ![t] = "none"]
    /\ ret' = [ret EXCEPT ![t] = NoRecord]
    /\ reqs' = [reqs EXCEPT ![t] = <<>>]
    /\ hit' = [hit EXCEPT ![t] = FALSE]
    /\ unpacked' = [unpacked EXCEPT ![t] = FALSE]
    /\ pos' = [pos EXCEPT ![t] = 0]
    /\ files0' = [files0 EXCEPT ![t] = files]
    /\ binDir0' = [binDir0 EXCEPT ![t] = binDir]
    /\ data0' = [data0 EXCEPT ![t] = NoRecord]

\* the host takes the result (or the exception); the frame of the call is gone
HostNext(t) ==
    /\ Finished(t)
    /\ ClearCall(t)
    /\ prev' = IF Provisioned(t) /\ ~hit[t] THEN plat[t] ELSE NoPlatform
    /\ UNCHANGED <<envVars, binDir, files, calls, test>>

\* ---------------------------------------------------------------- _get_platform
\* line 172 calling lines 83-90
GetPlatform(t) ==
    /\ pc[t] = "get_platform"
    /\ IF get_platform_raises(machine)
       THEN /\ Raise(t, "KeyError")
            /\ UNCHANGED plat
       ELSE /\ plat' = [plat EXCEPT ![t] = get_platform(system, machine)]
            /\ pc' = [pc EXCEPT ![t] = "exists"]
            /\ UNCHANGED err
    /\ UNCHANGED <<envVars, binDir, files, entry, data, tag, asset_file_name,
                   asset, body, ret, reqs, hit, unpacked, pos, files0, binDir0, data0, prev, calls,
                   test>>

\* ---------------------------------------------------------------- _ensure_dovi_tool
\* the existence check without its return
CheckExistsNoReturn(t) ==
    /\ pc[t] = "exists"
    /\ hit' = [hit EXCEPT ![t] = BinaryName(plat[t]) \in DOMAIN files]
    /\ pc' = [pc EXCEPT ![t] = "makedirs"]
    /\ UNCHANGED <<envVars, binDir, files, entry, data, plat, tag, asset_file_name, asset,
                   body, err, ret, reqs, unpacked, pos, files0, binDir0, data0, prev, calls, test>>

\* the existence check behind a lock held from the check to the end of ensure
CheckExistsLocked(t) ==
    /\ pc[t] = "exists"
    /\ \A u \in workers \ {t} :
           pc[u] \notin {"makedirs", "get_release", "get_asset", "open", "write", "unpack"}
    /\ hit' = [hit EXCEPT ![t] = BinaryName(plat[t]) \in DOMAIN files]
    /\ pc' = [pc EXCEPT ![t] = IF BinaryName(plat[t]) \in DOMAIN files
                               THEN "ensured" ELSE "makedirs"]
    /\ UNCHANGED <<envVars, binDir, files, entry, data, plat, tag,
                   asset_file_name, asset, body, err, ret, reqs, unpacked, pos, files0, binDir0, data0,
                   prev, calls, test>>

\* lines 96-100: os.path.exists(path) -> return
CheckExists(t) ==
    /\ pc[t] = "exists"
    /\ hit' = [hit EXCEPT ![t] = BinaryName(plat[t]) \in DOMAIN files]
    /\ pc' = [pc EXCEPT ![t] = IF BinaryName(plat[t]) \in DOMAIN files
                               THEN "ensured" ELSE "makedirs"]
    /\ UNCHANGED <<envVars, binDir, files, entry, data, plat, tag,
                   asset_file_name, asset, body, err, ret, reqs, unpacked, pos, files0, binDir0, data0,
                   prev, calls, test>>

\* line 102: os.makedirs(bin, exist_ok=True)
MakeDirs(t) ==
    /\ pc[t] = "makedirs"
    /\ binDir' = TRUE
    /\ pc' = [pc EXCEPT ![t] = "get_release"]
    /\ UNCHANGED <<envVars, files, entry, data, plat, tag, asset_file_name,
                   asset, body, err, ret, reqs, hit, unpacked, pos, files0, binDir0, data0, prev,
                   calls, test>>

\* the selection with the destination file opened before the asset is looked up
SelectAssetOpeningFirst(t, release_data) ==
    IF ~SupportedSystem(plat[t][1])
    THEN /\ Raise(t, "ValueError")
         /\ UNCHANGED <<asset_file_name, asset, files>>
    ELSE LET name == AssetFileName(release_data.tag_name, plat[t])
         IN  /\ asset_file_name' = [asset_file_name EXCEPT ![t] = name]
             /\ files' = [n \in DOMAIN files \cup {name} |->
                             IF n = name THEN ArchiveFile(NoBody, 0) ELSE files[n]]
             /\ IF MatchingIndexes(release_data.assets, name) = {}
                THEN /\ Raise(t, "FileNotFoundError")
                     /\ UNCHANGED asset
                ELSE /\ asset' = [asset EXCEPT ![t] = FirstMatch(release_data.assets, name)]
                     /\ pc' = [pc EXCEPT ![t] = "get_asset"]
                     /\ UNCHANGED err

\* lines 114-123: the suffix for the OS, ValueError for any other OS;
\* lines 125-132: the asset file name and the first asset of that name
SelectAsset(t, release_data) ==
    IF ~SupportedSystem(plat[t][1])
    THEN /\ Raise(t, "ValueError")
         /\ UNCHANGED <<asset_file_name, asset, files>>
    ELSE LET name == AssetFileName(release_data.tag_name, plat[t])
         IN  /\ asset_file_name' = [asset_file_name EXCEPT ![t] = name]
             /\ UNCHANGED files
             /\ IF MatchingIndexes(release_data.assets, name) = {}
                THEN /\ Raise(t, "FileNotFoundError")
                     /\ UNCHANGED asset
                ELSE /\ asset' = [asset EXCEPT ![t] = FirstMatch(release_data.assets, name)]
                     /\ pc' = [pc EXCEPT ![t] = "get_asset"]
                     /\ UNCHANGED err

\* lines 105-135: GET the latest release (no answer: ConnectionError), check the
\* status (not 200: RuntimeError), decode the answer, select the asset
GetRelease(t) ==
    /\ pc[t] = "get_release"
    /\ reqs' = [reqs EXCEPT ![t] = Append(@, FeedRequest)]
    /\ \/ /\ \E e \in {"ConnectionError", "RuntimeError"} : Raise(t, e)
          /\ UNCHANGED <<tag, asset_file_name, asset, files>>
       \/ \E as \in FeedAssets(latest, plat[t]) :
             /\ tag' = [tag EXCEPT ![t] = latest]
             /\ SelectAsset(t, [tag_name |-> latest, assets |-> as])
    /\ UNCHANGED <<envVars, binDir, entry, data, plat, body, ret, hit, unpacked, pos, files0,
                   binDir0, data0, prev, calls, test>>

\* lines 138-139: GET the asset (no answer: ConnectionError), raise_for_status()
\* (HTTPError); otherwise a body is on its way
GetAsset(t) ==
    /\ pc[t] = "get_asset"
    /\ reqs' = [reqs EXCEPT ![t] = Append(@, DownloadRequest(asset[t].browser_download_url))]
    /\ \/ /\ \E e \in {"ConnectionError", "HTTPError"} : Raise(t, e)
          /\ UNCHANGED body
       \/ /\ \E b \in Bodies : body' = [body EXCEPT ![t] = b]
          /\ pc' = [pc EXCEPT ![t] = "open"]
          /\ UNCHANGED err
    /\ UNCHANGED <<envVars, binDir, files, entry, data, plat, tag,
                   asset_file_name, asset, ret, hit, unpacked, pos, files0, binDir0, data0, prev,
                   calls, test>>

WriteFile(fs, name, content) ==
    [n \in DOMAIN fs \cup {name} |-> IF n = name THEN content ELSE fs[n]]

\* line 140: open(asset_dest_path, 'wb') creates or truncates the file
OpenDest(t) ==
    /\ pc[t] = "open"
    /\ files' = WriteFile(files, asset_file_name[t], ArchiveFile(body[t], 0))
    /\ pos' = [pos EXCEPT ![t] = 0]
    /\ pc' = [pc EXCEPT ![t] = "write"]
    /\ UNCHANGED <<envVars, binDir, entry, data, plat, tag, asset_file_name,
                   asset, body, err, ret, reqs, hit, unpacked, files0, binDir0, data0, prev,
                   calls, test>>

Chunks(t) == pos[t]

\* the file f after chunk k + 1 of body b is written at its offset: appended to
\* the same bytes, written over the same bytes, or written into a file that
\* another handle truncated or filled with other bytes, which is no archive
WriteAt(f, b, k) ==
    LET same == f.kind = "archive" /\ f.valid = b.valid /\ f.members = b.members
                    /\ f.total = b.total
    IN  IF same /\ f.written = k THEN ArchiveFile(b, k + 1)
        ELSE IF same /\ f.written > k THEN f
        ELSE [kind |-> "archive", valid |-> FALSE, members |-> {}, total |-> b.total,
              written |-> IF f.written > k + 1 THEN f.written ELSE k + 1]

\* lines 141-142: one chunk arrives and is written
WriteChunk(t) ==
    /\ pc[t] = "write"
    /\ Chunks(t) < body[t].total
    /\ files' = WriteFile(files, asset_file_name[t],
                           WriteAt(files[asset_file_name[t]], body[t], Chunks(t)))
    /\ pos' = [pos EXCEPT ![t] = Chunks(t) + 1]
    /\ UNCHANGED <<envVars, binDir, pc, entry, data, plat, tag, asset_file_name,
                   asset, body, err, ret, reqs, hit, unpacked, files0, binDir0, data0, prev,
                   calls, test>>

\* the broken transfer caught and passed over, the call going on to unpack
TransferFailPassedOver(t) ==
    /\ pc[t] = "write"
    /\ Chunks(t) < body[t].total
    /\ pc' = [pc EXCEPT ![t] = "unpack"]
    /\ err' = [err EXCEPT ![t] = "ConnectionError"]
    /\ UNCHANGED <<envVars, binDir, files, entry, data, plat, tag, asset_file_name, asset,
                   body, ret, reqs, hit, unpacked, pos, files0, binDir0, data0, prev, calls, test>>

\* line 141: iter_content raises when the connection breaks before the last chunk
TransferFail(t) ==
    /\ pc[t] = "write"
    /\ Chunks(t) < body[t].total
    /\ Raise(t, "ConnectionError")
    /\ UNCHANGED <<envVars, binDir, files, entry, data, plat, tag,
                   asset_file_name, asset, body, ret, reqs, hit, unpacked, pos, files0, binDir0, data0,
                   prev, calls, test>>

\* line 141: the body is exhausted, both with-blocks close
EndOfBody(t) ==
    /\ pc[t] = "write"
    /\ Chunks(t) = body[t].total
    /\ pc' = [pc EXCEPT ![t] = "unpack"]
    /\ UNCHANGED <<envVars, binDir, files, entry, data, plat, tag,
                   asset_file_name, asset, body, err, ret, reqs, hit, unpacked, pos, files0,
                   binDir0, data0, prev, calls, test>>

\* lines 145-148: shutil.unpack_archive(asset_dest_path, bin); _ensure_dovi_tool returns
UnpackAsset(t) ==
    /\ pc[t] = "unpack"
    /\ unpacked' = [unpacked EXCEPT ![t] = TRUE]
    /\ IF Readable(files[asset_file_name[t]])
       THEN /\ files' = Extract(files, files[asset_file_name[t]])
            /\ pc' = [pc EXCEPT ![t] = "ensured"]
            /\ UNCHANGED err
       ELSE /\ Raise(t, "ReadError")
            /\ UNCHANGED files
    /\ UNCHANGED <<envVars, binDir, entry, data, plat, tag, asset_file_name,
                   asset, body, ret, reqs, hit, pos, files0, binDir0, data0, prev, calls,
                   test>>

\* ---------------------------------------------------------------- on_worker_process
\* the record on_worker_process hands back: the one it was given
ReturnedRecord(d) == d

\* lines 175-180: _ensure_gpac, Settings, return data
WorkerReturn(t) ==
    /\ pc[t] = "ensured"
    /\ entry[t] = "worker"
    /\ ret' = [ret EXCEPT ![t] = ReturnedRecord(data[t])]
    /\ pc' = [pc EXCEPT ![t] = "returned"]
    /\ UNCHANGED <<envVars, binDir, files, entry, data, plat, tag,
                   asset_file_name, asset, body, err, reqs, hit, unpacked, pos, files0, binDir0, data0,
                   prev, calls, test>>

\* ---------------------------------------------------------------- file test
DOVI == "DOVI configuration record"
\* side_data_type values of a record; "" is a record without that key
SideDataTypes == {DOVI, "Mastering display metadata", ""}

SideDataLists == UNION { [1..n -> [side_data_type : SideDataTypes]] : n \in 0..MaxSideData }

\* a stream of the probe: side_data_list may be missing
StreamInfos ==
    { [has_side_data_list |-> TRUE, side_data_list |-> l] : l \in SideDataLists }
    \cup { [has_side_data_list |-> FALSE, side_data_list |-> <<>>] }

StreamLists == UNION { [1..n -> StreamInfos] : n \in 0..MaxStreams }

\* line 53: the records of the stream whose side_data_type is the DOVI record
dovi(stream_info) ==
    SelectSeq(IF stream_info.has_side_data_list THEN stream_info.side_data_list ELSE <<>>,
              LAMBDA d : d.side_data_type = DOVI)

\* the loop with the flag assigned for every stream, so that the last stream decides
ScanStreamsAssigning(streams, flag) ==
    LET after[i \in 0..Len(streams)] ==
            IF i = 0 THEN flag ELSE Len(dovi(streams[i])) > 0
    IN  after[Len(streams)]

\* lines 52-57: the loop over the streams; after[i] is the flag after stream i
ScanStreams(streams, flag) ==
    LET after[i \in 0..Len(streams)] ==
            IF i = 0 THEN flag
            ELSE IF Len(dovi(streams[i])) > 0 THEN TRUE ELSE after[i - 1]
    IN  after[Len(streams)]

\* lines 44-59: the value of data["add_file_to_pending_tasks"] in the returned data
file_test(probed, streams, flag) ==
    IF ~probed THEN flag ELSE ScanStreams(streams, flag)

\* the host hands a file of the library to the test
ScanFile ==
    /\ test.phase = "idle"
    /\ \E ok \in BOOLEAN, ss \in StreamLists, flag \in BOOLEAN :
          test' = [phase |-> "testing", probed |-> ok, streams |-> ss,
                   add_file_to_pending_tasks |-> flag, returned |-> flag]
    /\ UNCHANGED <<envVars, binDir, files, pc, entry, data, plat, tag, asset_file_name,
                   asset, body, err, ret, reqs, hit, unpacked, pos, files0, binDir0, data0, prev,
                   calls>>

\* on_library_management_file_test(data)
FileTest ==
    /\ test.phase = "testing"
    /\ test' = [test EXCEPT !.phase = "tested",
                            !.returned = file_test(test.probed, test.streams,
                                                   test.add_file_to_pending_tasks)]
    /\ UNCHANGED <<envVars, binDir, files, pc, entry, data, plat, tag, asset_file_name,
                   asset, body, err, ret, reqs, hit, unpacked, pos, files0, binDir0, data0, prev,
                   calls>>

InitFileTest ==
    /\ system = "Linux"
    /\ machine = M_x86_64
    /\ latest = "2.1.0"
    /\ files = <<>>
    /\ binDir = FALSE
    /\ InitWorkers({1})
    /\ test = IdleTest

NextFileTest == ScanFile \/ FileTest

SpecFileTest == InitFileTest /\ [][NextFileTest]_vars

\* ---------------------------------------------------------------- workers
Next ==
    \/ \E t \in workers : HostInvoke(t)
    \/ \E t \in workers : CallEnsure(t)
    \/ \E t \in workers : HostNext(t)
    \/ \E t \in workers : GetPlatform(t)
    \/ \E t \in workers : CheckExists(t)
    \/ \E t \in workers : MakeDirs(t)
    \/ \E t \in workers : GetRelease(t)
    \/ \E t \in workers : GetAsset(t)
    \/ \E t \in workers : OpenDest(t)
    \/ \E t \in workers : WriteChunk(t)
    \/ \E t \in workers : TransferFail(t)
    \/ \E t \in workers : EndOfBody(t)
    \/ \E t \in workers : UnpackAsset(t)
    \/ \E t \in workers : WorkerReturn(t)

Spec == Init /\ [][Next]_vars

\* ---------------------------------------------------------------- two workers
\* two worker slots of the host on one amd64 Linux machine whose bin directory
\* holds no file; the host hands out one task that has not started per slot
InitConc ==
    /\ system = "Linux"
    /\ machine = M_amd64
    /\ latest = "2.1.0"
    /\ files = <<>>
    /\ binDir \in BOOLEAN
    /\ InitWorkers({1, 2})
    /\ test = IdleTest

NextConc ==
    \/ \E t \in workers : calls < Cardinality(workers) /\ HostInvokeWith(t, {NoRecord})
    \/ \E t \in workers : HostNext(t)
    \/ \E t \in workers : GetPlatform(t)
    \/ \E t \in workers : CheckExists(t)
    \/ \E t \in workers : MakeDirs(t)
    \/ \E t \in workers : GetRelease(t)
    \/ \E t \in workers : GetAsset(t)
    \/ \E t \in workers : OpenDest(t)
    \/ \E t \in workers : WriteChunk(t)
    \/ \E t \in workers : TransferFail(t)
    \/ \E t \in workers : EndOfBody(t)
    \/ \E t \in workers : UnpackAsset(t)
    \/ \E t \in workers : WorkerReturn(t)

SpecConc == InitConc /\ [][NextConc]_vars

\* ---------------------------------------------------------------- properties
\* _ensure_dovi_tool has been entered, and has passed its existence check
Started(t) == plat[t] # NoPlatform /\ pc[t] \notin {"idle", "get_platform"}
PastCheck(t) == Started(t) /\ pc[t] # "exists"

\* the binary of the call's platform, as a name in the bin directory
CanonicalName(t) ==
    IF plat[t][1] = "Windows" THEN <<"dovi_tool", ".exe">> ELSE <<"dovi_tool">>

DownloadRequests(t) == {i \in DOMAIN reqs[t] : reqs[t][i] # FeedRequest}

\* the download request was sent and it, or the transfer after it, failed
DownloadFailed(t) == err[t] \in {"HTTPError", "ConnectionError"} /\ DownloadRequests(t) # {}

\* C1: every worker invocation on a record whose step is unset or in
\* 0..FINAL_STEP-1 returns the record with step one higher (unset counting as 0)
\* and repeat true exactly when the new step is below FINAL_STEP.
C1_StepAdvancesByOne ==
    \A t \in workers :
        pc[t] = "returned" =>
            /\ ret[t].step = (IF data[t].step = Unset THEN 0 ELSE data[t].step) + 1
            /\ ret[t].repeat <=> (ret[t].step < FINAL_STEP)

\* C2: a call that finds the binary at the canonical cache path returns
\* successfully, has sent no request and has left the bin directory as it was.
C2_CachedBinaryShortCircuits ==
    \A t \in workers :
        (PastCheck(t) /\ CanonicalName(t) \in DOMAIN files0[t]) =>
            /\ pc[t] \in {"ensured", "returned"}
            /\ err[t] = "none"
            /\ reqs[t] = <<>>
            /\ files = files0[t]
            /\ binDir = binDir0[t]

C2_Witness ==
    \E t \in workers :
        /\ pc[t] = "ensured"
        /\ CanonicalName(t) \in DOMAIN files0[t]
        /\ reqs[t] = <<>>

\* C3: the call that follows a call which provisioned the tool successfully from
\* a cache without the binary, for the same platform, sends no request.
C3_SecondCallSendsNoRequest ==
    \A t \in workers :
        (Started(t) /\ prev # NoPlatform /\ prev = plat[t]) => reqs[t] = <<>>

\* the tag, architecture and OS of the call spelled out as the asset name
ExpectedAssetName(t) ==
    <<"dovi_tool", "-", tag[t], "-">> \o Lower(plat[t][2])
        \o <<"-", CASE plat[t][1] = "Windows" -> "pc-windows-msvc.zip"
                    [] plat[t][1] = "Linux" -> "unknown-linux-musl.tar.gz"
                    [] plat[t][1] = "Darwin" -> "universal-macOS.zip"
                    [] OTHER -> "">>

\* C5: the asset name looked for is dovi_tool-{tag}-{architecture lowercased}-{suffix
\* of the OS}; the asset selected bears exactly that name and every download
\* request of the call goes to that asset's URL.
C5_ExactAssetName ==
    \A t \in workers :
        /\ asset_file_name[t] # <<>> =>
              /\ plat[t][1] \in {"Windows", "Linux", "Darwin"}
              /\ asset_file_name[t] = ExpectedAssetName(t)
        /\ asset[t] # NoAsset => asset[t].name = ExpectedAssetName(t)
        /\ \A i \in DownloadRequests(t) :
              /\ asset[t] # NoAsset
              /\ reqs[t][i] = DownloadRequest(asset[t].browser_download_url)

C5_Witness ==
    \E t \in workers :
        /\ DownloadRequests(t) # {}
        /\ plat[t][2] # Lower(plat[t][2])
        /\ asset[t].name = ExpectedAssetName(t)

\* C6: the archive is unpacked only once it is completely written; a call whose
\* download failed has raised, has not unpacked, pos, and has not brought a binary to
\* the canonical path.
C6_UnpackOnlyAfterDownload ==
    \A t \in workers :
        /\ (unpacked[t] \/ pc[t] = "unpack") =>
              /\ ~DownloadFailed(t)
              /\ asset_file_name[t] \in DOMAIN files
              /\ files[asset_file_name[t]].written = body[t].total
        /\ DownloadFailed(t) =>
              /\ pc[t] = "raised"
              /\ ~unpacked[t]
              /\ CanonicalName(t) \notin DOMAIN files0[t] => CanonicalName(t) \notin DOMAIN files

C6_Witness ==
    \E t \in workers :
        /\ DownloadFailed(t)
        /\ err[t] = "ConnectionError"
        /\ pc[t] = "raised"
        /\ asset_file_name[t] \in DOMAIN files
        /\ files[asset_file_name[t]].written > 0

PartialArchives == {n \in DOMAIN files : files[n].kind = "archive" /\ files[n].written < files[n].total}

\* C7: after a failed download the bin directory holds no partial archive file.
C7_NoPartialArchiveAfterFailure ==
    \A t \in workers : DownloadFailed(t) => PartialArchives = {}

\* the feed answered with another status than 200, or listed no asset of the name
FeedFailed(t) == err[t] \in {"RuntimeError", "FileNotFoundError"}

\* C8 as stated: a call that failed on the release feed (status, or no asset of
\* the name) has sent no download request and has left the cache, the directory
\* included, as it was.
C8_CacheAsItWas ==
    \A t \in workers :
        FeedFailed(t) =>
            /\ pc[t] = "raised"
            /\ DownloadRequests(t) = {}
            /\ files = files0[t]
            /\ binDir = binDir0[t]

\* C8 amended: such a call has sent no download request and has left the files of
\* the cache as they were; the bin directory itself exists afterwards.
C8_FilesAsTheyWere ==
    \A t \in workers :
        FeedFailed(t) =>
            /\ pc[t] = "raised"
            /\ DownloadRequests(t) = {}
            /\ files = files0[t]
            /\ binDir

C8_Witness ==
    \E t \in workers :
        /\ err[t] = "FileNotFoundError"
        /\ ~binDir0[t]
        /\ binDir

\* C9: a call that downloaded and unpacked without error but has no binary at the
\* canonical path has raised instead of returning.
C9_MissingBinaryRaises ==
    \A t \in workers :
        (unpacked[t] /\ err[t] # "ReadError" /\ CanonicalName(t) \notin DOMAIN files) =>
            pc[t] = "raised"

\* C10: platform resolution raises nothing; amd64 in any letter case becomes
\* x86_64 and every other architecture string comes back unchanged.
C10_UnmappedArchitecturePassesThrough ==
    \A t \in workers :
        (entry[t] = "worker" /\ pc[t] # "get_platform") =>
            /\ err[t] # "KeyError"
            /\ plat[t] = <<system, IF Lower(machine) = M_amd64 THEN M_x86_64 ELSE machine>>

AnyDovi(streams) ==
    \E i \in DOMAIN streams :
        /\ streams[i].has_side_data_list
        /\ \E j \in DOMAIN streams[i].side_data_list :
              streams[i].side_data_list[j].side_data_type = "DOVI configuration record"

\* C4 as stated: for a probed file the returned decision is true exactly when some
\* stream has a Dolby Vision configuration record.
C4_DecisionIffDovi ==
    (test.phase = "tested" /\ test.probed) => (test.returned <=> AnyDovi(test.streams))

\* C4 amended: the returned decision is true exactly when the file was probed and
\* some stream has a Dolby Vision configuration record, or the decision was
\* already true in the data passed in.
C4_DecisionIffDoviOrAlreadySet ==
    test.phase = "tested" =>
        (test.returned <=>
            (test.add_file_to_pending_tasks \/ (test.probed /\ AnyDovi(test.streams))))

C4_Witness ==
    /\ test.phase = "tested"
    /\ test.probed
    /\ ~test.add_file_to_pending_tasks
    /\ Len(test.streams) = 2
    /\ AnyDovi(test.streams)
    /\ ~AnyDovi(<<test.streams[2]>>)
    /\ test.returned

\* C11: on an OS other than Windows, Linux and macOS a worker invocation that is
\* past platform resolution has raised the unsupported-platform error, has sent no
\* request and has not created the bin directory, a binary being cached or not.
C11_UnsupportedSystemRejectedAtResolution ==
    \A t \in workers :
        (entry[t] = "worker" /\ pc[t] # "get_platform"
            /\ system \notin {"Windows", "Linux", "Darwin"}) =>
            /\ pc[t] = "raised"
            /\ err[t] = "ValueError"
            /\ reqs[t] = <<>>
            /\ binDir = binDir0[t]

\* C12: a worker invocation in which platform resolution or provisioning raised
\* has ended with that exception: nothing is returned to the host, and the task
\* record is as the host handed it over (no command, step and repeat untouched).
C12_ErrorsPropagate ==
    \A t \in workers :
        (entry[t] = "worker" /\ err[t] # "none") =>
            /\ pc[t] = "raised"
            /\ ret[t] = NoRecord
            /\ data[t] = data0[t]
            /\ data[t].exec_command = <<>>

C12_Witness ==
    \E t \in workers :
        /\ entry[t] = "worker"
        /\ pc[t] = "raised"
        /\ err[t] \in {"KeyError", "FileNotFoundError", "ReadError"}
        /\ data0[t].step = FINAL_STEP - 1

\* the steps of _ensure_dovi_tool, from the existence check to the unpacking
InEnsure(t) ==
    pc[t] \in {"exists", "makedirs", "get_release", "get_asset", "open", "write", "unpack"}

EnsureStep(t) ==
    \/ CheckExists(t)
    \/ MakeDirs(t)
    \/ GetRelease(t)
    \/ GetAsset(t)
    \/ OpenDest(t)
    \/ WriteChunk(t)
    \/ EndOfBody(t)
    \/ UnpackAsset(t)

\* C13: nothing in ensure excludes one task while another is inside it: a
\* task that stands anywhere between the existence check and the unpacking
\* can take its next step whatever the other task is doing and whatever the
\* other task has put in the cache meanwhile.
C13_NoExclusionInEnsure ==
    \A t \in workers : InEnsure(t) => ENABLED EnsureStep(t)

\* both tasks started on the empty cache and found the binary missing, both
\* queried the feed and downloaded the same asset to the same path; one has
\* unpacked it, which put the binary in place, and the other is about to
\* unpack over it
C13_Witness ==
    \E a \in workers : \E b \in workers \ {a} :
        /\ files0[a] = <<>> /\ files0[b] = <<>>
        /\ ~hit[a] /\ ~hit[b]
        /\ FeedRequest \in {reqs[a][i] : i \in DOMAIN reqs[a]}
        /\ FeedRequest \in {reqs[b][i] : i \in DOMAIN reqs[b]}
        /\ DownloadRequests(a) # {} /\ DownloadRequests(b) # {}
        /\ asset_file_name[a] = asset_file_name[b]
        /\ asset[a] = asset[b]
        /\ pc[a] = "ensured" /\ unpacked[a]
        /\ BinaryName(plat[a]) \in DOMAIN files
        /\ pc[b] = "unpack" /\ ~unpacked[b]
        /\ asset_file_name[b] \in DOMAIN files

====
